---- MODULE Spec2Model ----
(***************************************************************************)
(* A model of kgx/sparql_transformer.py: the paginated fetch of            *)
(* RedSparqlTransformer (count query, edge pages, node-attribute batches,  *)
(* categorize) and the generic edge loading of SparqlTransformer.          *)
(*                                                                         *)
(* Python strings are sequences of one-character strings, so that          *)
(* str.format, str.join, str.startswith, str.split and str.replace are     *)
(* computed and not assumed.                                               *)
(***************************************************************************)
EXTENDS Integers, Sequences, FiniteSets, TLC

VARIABLES
    pc,           \* position in the running method
    method,       \* the method the caller called
    predicates,   \* the 'predicates' argument (a set)
    kwargs,       \* the keyword arguments: a function with domain {} or {"limit"}
    todo,         \* predicates the outer for loop has not visited yet
    predicate,    \* the outer loop variable
    count,        \* load_networkx_graph: count
    start,        \* load_networkx_graph: start
    i,            \* load_networkx_graph: the value range() yields next
    results,      \* load_networkx_graph: results['results']['bindings']
    node_set,     \* load_nodes: its argument
    chunks,       \* load_nodes: what node_generator has still to yield
    ret,          \* where load_nodes returns to
    node_results, \* load_nodes: node_results['results']['bindings']
    graph,        \* self.graph: [nodes: id -> (key -> value), edges: set of <<s, o, p>>]
    store,        \* endpoint: its node triples, as it lists them
    estore,       \* endpoint: the association rows it may list on an edge page
    ecounts,      \* endpoint: the totals its count query may report
    counted,      \* history: predicate -> count queries answered for it
    offsets,      \* history: the edge-page queries of the current predicate
    requested,    \* history: rows asked for by the edge-page queries of the fetch
    returned,     \* history: triple -> rows of the fetch's edge pages holding it
    added,        \* history: triple -> add_edge calls of the fetch's edge pages
    occurs,       \* history: identifier -> pages of the current predicate holding it
    submitted,    \* history: identifier -> times listed in a node query (current predicate)
    values,       \* history: the curie_list of each node query of the current load_nodes
    last_calls,   \* history: the graph calls of the last step that made any
    failed,       \* history: the query that failed, <<>> while none has
    hist          \* history: the graph as it was before each categorize pass

\* the call's arguments and the endpoint's data
given == <<method, predicates, kwargs, store, estore, ecounts>>

\* what an observer of the endpoint and of the graph has seen
seen == <<graph, counted, offsets, requested, returned, added, occurs, submitted,
          values, last_calls, hist>>

\* the locals
locals == <<todo, predicate, count, start, i, results, node_set, chunks, ret, node_results>>

vars == <<pc, given, locals, seen, failed>>

---------------------------------------------------------------------------
(* Bounds of the model *)

\* pages a count query can ask for
MaxPages == 3
\* rows an edge page returns at most
MaxRows == 2
\* node identifiers load_nodes is called with directly
MaxIds == 5
\* rows of the endpoint's node store
MaxStore == 2
\* categorize passes a caller makes
MaxPasses == 2
\* The source groups node identifiers by 10000 (load_nodes); the model
\* groups by ChunkSize and every statement below is made in terms of it.
ChunkSize == 2

\* step = 1000
Step == 1000

---------------------------------------------------------------------------
(* Strings *)

\* the fill value of _grouper: no string
None == <<"None">>

Range(s) == {s[k] : k \in DOMAIN s}

SeqsUpTo(S, n) == UNION {[1..k -> S] : k \in 0..n}

\* the orders in which a set can be iterated
Orderings(S) ==
    {f \in [1..Cardinality(S) -> S] : \A a, b \in 1..Cardinality(S) : f[a] = f[b] => a = b}

\* one more x in the bag b (a function from elements to positive counts)
BagAdd(b, x) == IF x \in DOMAIN b THEN [b EXCEPT ![x] = @ + 1] ELSE (x :> 1) @@ b

RECURSIVE BagAddAll(_, _)
BagAddAll(b, xs) == IF xs = <<>> THEN b ELSE BagAddAll(BagAdd(b, xs[1]), Tail(xs))

BagCount(b, x) == IF x \in DOMAIN b THEN b[x] ELSE 0

EmptyBag == <<>>

StartsWith(s, prefix) ==
    Len(s) >= Len(prefix) /\ SubSeq(s, 1, Len(prefix)) = prefix

RECURSIVE Split(_, _)
\* s.split(sep) for a one-character sep
Split(s, sep) ==
    IF \E k \in 1..Len(s) : s[k] = sep
    THEN LET k == CHOOSE k \in 1..Len(s) : s[k] = sep /\ \A j \in 1..(k - 1) : s[j] # sep
         IN  <<SubSeq(s, 1, k - 1)>> \o Split(SubSeq(s, k + 1, Len(s)), sep)
    ELSE <<s>>

RECURSIVE Join(_, _)
\* sep.join(parts)
Join(parts, sep) ==
    IF parts = <<>> THEN <<>>
    ELSE IF Len(parts) = 1 THEN parts[1]
    ELSE parts[1] \o sep \o Join(Tail(parts), sep)

RECURSIVE Replace(_, _, _)
\* s.replace(old, new), old not empty
Replace(s, old, new) ==
    IF s = <<>> THEN <<>>
    ELSE IF StartsWith(s, old) THEN new \o Replace(SubSeq(s, Len(old) + 1, Len(s)), old, new)
    ELSE <<s[1]>> \o Replace(Tail(s), old, new)

\* '<{}>'.format(v)
Bracket(v) == <<"<">> \o v \o <<">">>

Uppers == <<"A", "B", "C", "D", "E", "F", "G", "H", "I", "J", "K", "L", "M",
            "N", "O", "P", "Q", "R", "S", "T", "U", "V", "W", "X", "Y", "Z">>
Lowers == <<"a", "b", "c", "d", "e", "f", "g", "h", "i", "j", "k", "l", "m",
            "n", "o", "p", "q", "r", "s", "t", "u", "v", "w", "x", "y", "z">>

IsUpper(c) == \E k \in DOMAIN Uppers : Uppers[k] = c

Lower(c) == IF IsUpper(c) THEN Lowers[CHOOSE k \in DOMAIN Uppers : Uppers[k] = c] ELSE c

\* un_camel_case (kgx.utils.kgx_utils): a space before every capital that is
\* not the first character, then lower case
un_camel_case(s) ==
    LET RECURSIVE Go(_, _)
        Go(t, first) ==
            IF t = <<>> THEN <<>>
            ELSE (IF IsUpper(t[1]) /\ ~first THEN <<" ", Lower(t[1])>> ELSE <<Lower(t[1])>>)
                 \o Go(Tail(t), FALSE)
    IN  Go(s, TRUE)

---------------------------------------------------------------------------
(* The graph (RdfGraphMixin) *)

EmptyGraph == [nodes |-> <<>>, edges |-> {}]

AddNode(g, n) ==
    IF n \in DOMAIN g.nodes THEN g
    ELSE [g EXCEPT !.nodes = (n :> <<>>) @@ g.nodes]

\* add_node_attribute(node, key=key, value=value): the last write wins
AddNodeAttribute(g, n, key, value) ==
    LET h == AddNode(g, n)
    IN  [h EXCEPT !.nodes[n] = (key :> value) @@ h.nodes[n]]

\* add_edge(s, o, p)
AddEdge(g, s, o, p) ==
    LET h == AddNode(AddNode(g, s), o)
    IN  [h EXCEPT !.edges = h.edges \cup {<<s, o, p>>}]

EdgeCall(s, o, p) == [op |-> "add_edge", s |-> s, o |-> o, p |-> p]

AttrCall(n, key, value) == [op |-> "add_node_attribute", node |-> n, key |-> key, value |-> value]

RECURSIVE Apply(_, _)
\* the graph after the calls cs, made in order
Apply(g, cs) ==
    IF cs = <<>> THEN g
    ELSE LET c == cs[1]
         IN  Apply(IF c.op = "add_edge" THEN AddEdge(g, c.s, c.o, c.p)
                   ELSE AddNodeAttribute(g, c.node, c.key, c.value),
                   Tail(cs))

---------------------------------------------------------------------------
(* The endpoint *)

N1 == <<"n", "1">>
N2 == <<"n", "2">>
N3 == <<"n", "3">>

\* the predicates the caller may ask for
P1 == <<"p", "1">>
P2 == <<"p", "2">>

\* what a count query may report
Counts ==
    {k * Step + d : k \in 0..(MaxPages - 1), d \in {0, Step \div 2}} \cup {MaxPages * Step}

\* the 'limit' arguments tried
Limits == {k * Step : k \in 0..(MaxPages - 1)} \cup {Step - 1}

Uri(v) == [type |-> "uri", value |-> v]
Literal(v) == [type |-> "literal", value |-> v]
BNode(v) == [type |-> "bnode", value |-> v]

REL == <<"r">>
K1 == <<"k", "1">>
K2 == <<"k", "2">>

EdgeRow(s, o, k) ==
    [subject |-> s, predicate |-> REL, object |-> Uri(o),
     edge_property_key |-> k, edge_property_value |-> <<"v">>]

\* association rows: one triple listed once per edge property, and a second
\* triple sharing a node with it
EdgeRows == {EdgeRow(N1, N2, K1), EdgeRow(N1, N2, K2), EdgeRow(N2, N3, K1)}

BL_TYPE == <<"b", "l", ":", "t", "y", "p", "e">>
NAME == <<"n", "a", "m", "e">>
GENE_PRODUCT ==
    <<"b", "i", "o", "l", "i", "n", "k", ":", "G", "e", "n", "e", "P", "r", "o", "d", "u", "c", "t">>
DRUG == <<"D", "r", "u", "g">>
X == <<"x">>
FORTY_TWO == <<"4", "2">>
BLANK == <<"_", ":", "b">>

\* rows the node store may hold
NodeRows ==
    {[subject |-> n, predicate |-> p, object |-> o] :
        n \in {N1, N2}, p \in {BL_TYPE, NAME},
        o \in {Uri(GENE_PRODUCT), Literal(X), BNode(BLANK)}}

Stores(n) == SeqsUpTo(NodeRows, n)

\* node stores tried under a whole fetch
FetchStores ==
    {<<>>} \cup {<<[subject |-> N2, predicate |-> BL_TYPE, object |-> o]>> :
                    o \in {Uri(GENE_PRODUCT), BNode(BLANK)}}

\* rows a generic edge query may return
GenericRows ==
    {[subject |-> n, predicate |-> P1, object |-> o] :
        n \in {N1, N2}, o \in {Uri(N3), Literal(FORTY_TWO), BNode(BLANK)}}

\* SELECT ?subject ?predicate ?object WHERE { ... VALUES ?subject { curie_list } }
NodeReply(st, curie_list) ==
    LET wanted == Range(Split(curie_list, " "))
        Wanted(r) == Bracket(r.subject) \in wanted
    IN  SelectSeq(st, Wanted)

\* the terms a VALUES clause lists
ValuesOf(curie_list) ==
    LET NotEmpty(t) == t # <<>>
    IN  SelectSeq(Split(curie_list, " "), NotEmpty)

CountQ(p) == [kind |-> "count", association |-> Bracket(p)]

EdgeQ(p, offset, limit) ==
    [kind |-> "edge", association |-> Bracket(p), offset |-> offset, limit |-> limit]

NodeQ(curie_list) == [kind |-> "node", curie_list |-> curie_list]

GenericQ(p) == [kind |-> "generic", predicate |-> Bracket(p)]

NoQuery == [kind |-> "none"]

\* the triple a row carries
TripleOf(r) == <<r.subject, r.predicate, r.object.value>>

\* the identifiers a page shows, as the VALUES clause writes them
ObservedIds(rows) ==
    {<<"<">> \o rows[k].subject \o <<">">> : k \in DOMAIN rows}
        \cup {<<"<">> \o rows[k].object.value \o <<">">> : k \in DOMAIN rows}

---------------------------------------------------------------------------
(* RedSparqlTransformer.load_networkx_graph *)

NoKwargs == [k \in {} |-> 0]

LimitKwargs(n) == [k \in {"limit"} |-> n]

\* mutant: the error is caught and the step is taken again
RaiseAndRetry(q) ==
    /\ failed' = q
    /\ pc' = pc

\* sparql.query().convert() raises and nothing catches it
Raise(q) ==
    /\ failed' = q
    /\ pc' = "aborted"

\* mutant: a range that includes its stop value
RangeHasNextInclusive(n, stop) == n <= stop

\* range(step, count + step, step) has a next value
RangeHasNext(n, stop) == n < stop

\* mutant: only the subjects of a page are collected
NodeListSubjects(rows) == {Bracket(rows[k].subject) : k \in DOMAIN rows}

\* the node_list of one page
NodeList(rows) ==
    {Bracket(rows[k].subject) : k \in DOMAIN rows}
        \cup {Bracket(rows[k].object.value) : k \in DOMAIN rows}

RECURSIVE _grouper(_, _, _)
\* zip_longest(*[iter(iterable)] * n, fillvalue=fillvalue), for one iteration
\* order of the iterable
_grouper(iterable, n, fillvalue) ==
    IF iterable = <<>> THEN <<>>
    ELSE IF Len(iterable) >= n
    THEN <<SubSeq(iterable, 1, n)>> \o _grouper(SubSeq(iterable, n + 1, Len(iterable)), n, fillvalue)
    ELSE <<iterable \o [k \in 1..(n - Len(iterable)) |-> fillvalue]>>

\* node_generator = self._grouper(node_set, 10000), in some iteration order
\* of the set
NodeGenerator(ns, gen) ==
    \E order \in Orderings(ns) : gen = _grouper(order, ChunkSize, None)

\* mutant: the paging stops as soon as the limit is reached
LimitReached(kw, n) == "limit" \in DOMAIN kw /\ n >= kw["limit"]

\* 'limit' in kwargs and i > kwargs['limit']
LimitExceeded(kw, n) == "limit" \in DOMAIN kw /\ n > kw["limit"]

\* mutant: one add_edge per distinct triple of the page
EdgeCallsDistinct(rows) ==
    LET First(k) == \A j \in 1..(k - 1) : TripleOf(rows[j]) # TripleOf(rows[k])
        firsts == SelectSeq([k \in DOMAIN rows |-> k], First)
    IN  [k \in DOMAIN firsts |->
            EdgeCall(rows[firsts[k]].subject, rows[firsts[k]].object.value,
                     rows[firsts[k]].predicate)]

\* self.add_edge(s, o, p) for every row of the page
EdgeCalls(rows) ==
    [k \in DOMAIN rows |-> EdgeCall(rows[k].subject, rows[k].object.value, rows[k].predicate)]

CountQuery ==
    /\ pc = "for_predicate"
    /\ \E p \in todo, c \in ecounts :
        /\ predicate' = p
        /\ todo' = todo \ {p}
        /\ count' = c
        /\ counted' = BagAdd(counted, p)
    /\ start' = 0
    /\ i' = Step
    /\ pc' = "for_page"
    /\ offsets' = <<>>
    /\ occurs' = EmptyBag
    /\ submitted' = EmptyBag
    /\ UNCHANGED <<given, results, node_set, chunks, ret, node_results, graph, requested,
                   returned, added, values, last_calls, hist, failed>>

CountQueryFails ==
    /\ pc = "for_predicate"
    /\ \E p \in todo :
        /\ predicate' = p
        /\ todo' = todo \ {p}
        /\ Raise(CountQ(p))
    /\ UNCHANGED <<given, count, start, i, results, node_set, chunks, ret, node_results, seen>>

EdgePage ==
    /\ pc = "for_page"
    /\ RangeHasNext(i, count + Step)
    /\ \E rows \in SeqsUpTo(estore, MaxRows) :
        /\ results' = rows
        /\ node_set' = NodeList(rows)
        /\ NodeGenerator(NodeList(rows), chunks')
        /\ returned' = BagAddAll(returned, [k \in DOMAIN rows |-> TripleOf(rows[k])])
        /\ occurs' = BagAddAll(occurs, CHOOSE o \in Orderings(ObservedIds(rows)) : TRUE)
    /\ offsets' = Append(offsets, [offset |-> start, limit |-> Step])
    /\ requested' = requested + Step
    /\ start' = i
    /\ values' = <<>>
    /\ ret' = "add_edges"
    /\ pc' = "load_nodes"
    /\ UNCHANGED <<given, todo, predicate, count, i, node_results, graph, counted, added,
                   submitted, last_calls, hist, failed>>

EdgePageFails ==
    /\ pc = "for_page"
    /\ RangeHasNext(i, count + Step)
    /\ Raise(EdgeQ(predicate, start, Step))
    /\ UNCHANGED <<given, locals, seen>>

PagesExhausted ==
    /\ pc = "for_page"
    /\ ~RangeHasNext(i, count + Step)
    /\ pc' = "for_predicate"
    /\ UNCHANGED <<given, locals, seen, failed>>

AddEdges ==
    /\ pc = "add_edges"
    /\ last_calls' = EdgeCalls(results)
    /\ graph' = Apply(graph, EdgeCalls(results))
    /\ added' = BagAddAll(added, [k \in DOMAIN EdgeCalls(results) |->
                    <<EdgeCalls(results)[k].s, EdgeCalls(results)[k].p, EdgeCalls(results)[k].o>>])
    /\ IF LimitExceeded(kwargs, i)
       THEN pc' = "for_predicate" /\ i' = i
       ELSE pc' = "for_page" /\ i' = i + Step
    /\ UNCHANGED <<given, todo, predicate, count, start, results, node_set, chunks, ret,
                   node_results, counted, offsets, requested, returned, occurs, submitted,
                   values, hist, failed>>

---------------------------------------------------------------------------
(* RedSparqlTransformer.load_nodes *)

Truthy(x) == x # None /\ x # <<>>

\* mutant: the chunk is used as _grouper yields it
KeepEveryNode(nodes) == nodes

\* filter(None, nodes)
FilterNone(nodes) == SelectSeq(nodes, Truthy)

\* if predicate.startswith('bl:'): predicate = predicate.split(':')[1]
AttributeKey(p) ==
    IF StartsWith(p, <<"b", "l", ":">>) THEN Split(p, ":")[2] ELSE p

\* d[subject][predicate] = object, d and d[subject] keeping the order of
\* first insertion
ItemSet(items, k, v) ==
    IF \E j \in DOMAIN items : items[j].key = k
    THEN [j \in DOMAIN items |-> IF items[j].key = k THEN [key |-> k, value |-> v] ELSE items[j]]
    ELSE Append(items, [key |-> k, value |-> v])

DictSet(d, s, k, v) ==
    LET d1 == IF \E j \in DOMAIN d : d[j].node = s THEN d
              ELSE Append(d, [node |-> s, items |-> <<>>])
    IN  [j \in DOMAIN d1 |->
            IF d1[j].node = s THEN [d1[j] EXCEPT !.items = ItemSet(@, k, v)] ELSE d1[j]]

\* mutant: every row is kept
KeepEveryRow(r) == TRUE

\* r['object']['type'] != 'bnode'
KeepRow(r) == r.object.type # "bnode"

RECURSIVE Collect(_, _)
\* the dictionary d after the rows of one chunk's reply
Collect(rows, d) ==
    IF rows = <<>> THEN d
    ELSE LET r == rows[1]
         IN  Collect(Tail(rows),
                     IF KeepRow(r)
                     THEN DictSet(d, r.subject, AttributeKey(r.predicate), r.object.value)
                     ELSE d)

RECURSIVE Flush(_)
\* for node, attr_dict in d.items(): for key, value in attr_dict.items(): add_node_attribute
Flush(d) ==
    IF d = <<>> THEN <<>>
    ELSE [j \in DOMAIN d[1].items |-> AttrCall(d[1].node, d[1].items[j].key, d[1].items[j].value)]
         \o Flush(Tail(d))

\* the query of one chunk
ChunkQuery(nodes) == NodeQ(Join(FilterNone(nodes), <<" ">>))

LoadNodesChunk ==
    /\ pc = "load_nodes"
    /\ chunks # <<>>
    /\ LET q == ChunkQuery(Head(chunks))
           reply == NodeReply(store, q.curie_list)
           cs == Flush(Collect(reply, <<>>))
       IN  /\ node_results' = reply
           /\ last_calls' = cs
           /\ graph' = Apply(graph, cs)
           /\ values' = Append(values, q.curie_list)
           /\ submitted' = BagAddAll(submitted, ValuesOf(q.curie_list))
    /\ chunks' = Tail(chunks)
    /\ UNCHANGED <<pc, given, todo, predicate, count, start, i, results, node_set, ret,
                   counted, offsets, requested, returned, added, occurs, hist, failed>>

LoadNodesChunkFails ==
    /\ pc = "load_nodes"
    /\ chunks # <<>>
    /\ Raise(ChunkQuery(Head(chunks)))
    /\ UNCHANGED <<given, locals, seen>>

LoadNodesReturn ==
    /\ pc = "load_nodes"
    /\ chunks = <<>>
    /\ pc' = ret
    /\ UNCHANGED <<given, locals, seen, failed>>

---------------------------------------------------------------------------
(* RedSparqlTransformer.categorize *)

CATEGORY == <<"c", "a", "t", "e", "g", "o", "r", "y">>
TYPE == <<"t", "y", "p", "e">>
BIOLINK == <<"b", "i", "o", "l", "i", "n", "k", ":">>
FOO == <<"f", "o", "o">>

\* mutant: the category is derived for every node that has a type
HasType(data) == TYPE \in DOMAIN data

\* 'category' not in data and 'type' in data
NeedsCategory(data) == CATEGORY \notin DOMAIN data /\ TYPE \in DOMAIN data

\* un_camel_case(data['type'].replace('biolink:', ''))
CategoryOf(type) == un_camel_case(Replace(type, BIOLINK, <<>>))

categorize(g) ==
    [g EXCEPT !.nodes =
        [n \in DOMAIN g.nodes |->
            IF NeedsCategory(g.nodes[n])
            THEN (CATEGORY :> CategoryOf(g.nodes[n][TYPE])) @@ g.nodes[n]
            ELSE g.nodes[n]]]

\* self.categorize(), the last statement of load_networkx_graph
Categorize ==
    /\ pc = "for_predicate"
    /\ todo = {}
    /\ hist' = Append(hist, graph)
    /\ graph' = categorize(graph)
    /\ pc' = "idle"
    /\ UNCHANGED <<given, locals, counted, offsets, requested, returned, added, occurs,
                   submitted, values, last_calls, failed>>

\* categorize() called by the caller
CallCategorize ==
    /\ pc = "idle"
    /\ method = "categorize"
    /\ Len(hist) < MaxPasses
    /\ hist' = Append(hist, graph)
    /\ graph' = categorize(graph)
    /\ UNCHANGED <<pc, given, locals, counted, offsets, requested, returned, added, occurs,
                   submitted, values, last_calls, failed>>

---------------------------------------------------------------------------
(* SparqlTransformer.load_networkx_graph *)

\* mutant: only a uri object becomes an edge
RouteUriOnly(r) ==
    IF r.object.type = "uri"
    THEN EdgeCall(r.subject, r.object.value, r.predicate)
    ELSE AttrCall(r.subject, r.predicate, r.object.value)

\* one row: a literal object becomes a node attribute, anything else an edge
Route(r) ==
    IF r.object.type = "literal"
    THEN AttrCall(r.subject, r.predicate, r.object.value)
    ELSE EdgeCall(r.subject, r.object.value, r.predicate)

GenericQuery ==
    /\ pc = "generic"
    /\ \E p \in todo, rows \in SeqsUpTo(GenericRows, MaxRows) :
        /\ predicate' = p
        /\ todo' = todo \ {p}
        /\ counted' = BagAdd(counted, p)
        /\ results' = rows
        /\ last_calls' = [k \in DOMAIN rows |-> Route(rows[k])]
        /\ graph' = Apply(graph, [k \in DOMAIN rows |-> Route(rows[k])])
    /\ UNCHANGED <<pc, given, count, start, i, node_set, chunks, ret, node_results, offsets,
                   requested, returned, added, occurs, submitted, values, hist, failed>>

GenericQueryFails ==
    /\ pc = "generic"
    /\ \E p \in todo :
        /\ predicate' = p
        /\ todo' = todo \ {p}
        /\ Raise(GenericQ(p))
    /\ UNCHANGED <<given, count, start, i, results, node_set, chunks, ret, node_results, seen>>

GenericReturn ==
    /\ pc = "generic"
    /\ todo = {}
    /\ pc' = "idle"
    /\ UNCHANGED <<given, locals, seen, failed>>

---------------------------------------------------------------------------
(* The calls a caller makes on a new transformer *)

Kwargs == {NoKwargs} \cup {LimitKwargs(n) : n \in Limits}

\* node data a graph may hold before categorize is called
AttrValues == (CATEGORY :> {FOO}) @@ (TYPE :> {GENE_PRODUCT, DRUG}) @@ (NAME :> {X})

NodeDatas ==
    UNION {{f \in [K -> {FOO, GENE_PRODUCT, DRUG, X}] : \A k \in K : f[k] \in AttrValues[k]} :
              K \in SUBSET {CATEGORY, TYPE, NAME}}

Graphs == UNION {{[nodes |-> f, edges |-> {}] : f \in [ns -> NodeDatas]} : ns \in SUBSET {N1, N2}}

InitLocals ==
    /\ todo = predicates
    /\ predicate = <<>>
    /\ count = 0
    /\ start = 0
    /\ i = 0
    /\ results = <<>>
    /\ node_results = <<>>

InitSeen ==
    /\ counted = EmptyBag
    /\ offsets = <<>>
    /\ requested = 0
    /\ returned = EmptyBag
    /\ added = EmptyBag
    /\ occurs = EmptyBag
    /\ submitted = EmptyBag
    /\ values = <<>>
    /\ last_calls = <<>>
    /\ failed = NoQuery
    /\ hist = <<>>

\* RedSparqlTransformer(...).load_networkx_graph(predicates=..., **kwargs)
InitFetch ==
    /\ method = "load_networkx_graph"
    /\ pc = "for_predicate"
    \* either any predicates, limit and count against an endpoint with one
    \* association row, or one predicate without limit against an endpoint
    \* with all the rows, a node store and at most two pages
    /\ \/ /\ predicates \in SUBSET {P1, P2}
          /\ kwargs \in Kwargs
          /\ estore = {EdgeRow(N1, N2, K1)}
          /\ ecounts = Counts
          /\ store \in Stores(0)
       \/ /\ predicates = {P1}
          /\ kwargs = NoKwargs
          /\ estore = EdgeRows
          /\ ecounts = {c \in Counts : c <= 2 * Step}
          /\ store \in FetchStores
    /\ node_set = {}
    /\ chunks = <<>>
    /\ ret = "add_edges"
    /\ graph = EmptyGraph

\* RedSparqlTransformer(...).load_nodes(node_set)
InitLoadNodes ==
    /\ method = "load_nodes"
    /\ pc = "load_nodes"
    /\ predicates = {}
    /\ kwargs = NoKwargs
    /\ estore = {}
    /\ ecounts = {}
    \* either many identifiers and a small store, or few and a larger one
    /\ \/ /\ store \in Stores(1)
          /\ node_set \in SUBSET {Bracket(<<"n", ToString(k)>>) : k \in 1..MaxIds}
       \/ /\ store \in Stores(MaxStore)
          /\ node_set \in SUBSET {Bracket(N1), Bracket(N2), Bracket(N3)}
    /\ NodeGenerator(node_set, chunks)
    /\ ret = "idle"
    /\ graph = EmptyGraph

\* RedSparqlTransformer(source_graph).categorize()
InitCategorize ==
    /\ method = "categorize"
    /\ pc = "idle"
    /\ predicates = {}
    /\ kwargs = NoKwargs
    /\ estore = {}
    /\ ecounts = {}
    /\ store = <<>>
    /\ node_set = {}
    /\ chunks = <<>>
    /\ ret = "idle"
    /\ graph \in Graphs

\* SparqlTransformer(...).load_networkx_graph(predicates=...)
InitGeneric ==
    /\ method = "generic"
    /\ pc = "generic"
    /\ predicates \in SUBSET {P1, P2}
    /\ kwargs = NoKwargs
    /\ estore = {}
    /\ ecounts = {}
    /\ store = <<>>
    /\ node_set = {}
    /\ chunks = <<>>
    /\ ret = "idle"
    /\ graph = EmptyGraph

Init ==
    /\ InitFetch \/ InitLoadNodes \/ InitCategorize \/ InitGeneric
    /\ InitLocals
    /\ InitSeen

Next ==
    \/ CountQuery
    \/ CountQueryFails
    \/ EdgePage
    \/ EdgePageFails
    \/ PagesExhausted
    \/ LoadNodesChunk
    \/ LoadNodesChunkFails
    \/ LoadNodesReturn
    \/ AddEdges
    \/ Categorize
    \/ CallCategorize
    \/ GenericQuery
    \/ GenericQueryFails
    \/ GenericReturn

Spec == Init /\ [][Next]_vars

---------------------------------------------------------------------------
(* Properties *)

Ceil(a, b) == (a + b - 1) \div b

Min(a, b) == IF a <= b THEN a ELSE b

Fetching == method = "load_networkx_graph"

\* the paging of the current predicate has ended
PagingOver == pc \in {"for_predicate", "idle"}

\* every page returned so far has been processed to its end
PagesProcessed == pc \in {"for_page", "for_predicate", "idle"}

\* C1: without a 'limit' argument the edge-page queries of a predicate have
\* offsets 0, Step, 2 * Step, ... in this order and limit Step each, never
\* more than ceil(count / Step) of them whatever the pages return, and exactly
\* that many once the predicate's paging has ended (none for a count of 0).
C1_PagesFollowCount ==
    (Fetching /\ "limit" \notin DOMAIN kwargs) =>
        /\ \A k \in DOMAIN offsets : offsets[k] = [offset |-> (k - 1) * Step, limit |-> Step]
        /\ Len(offsets) <= Ceil(count, Step)
        /\ PagingOver => Len(offsets) = Ceil(count, Step)

\* a count of 2500 has been paged with three queries, the last page empty
C1_Witness ==
    /\ Fetching /\ "limit" \notin DOMAIN kwargs
    /\ pc = "for_predicate"
    /\ count = 2 * Step + Step \div 2
    /\ Len(offsets) = 3
    /\ results = <<>>

\* C2 as claimed: once its page is processed, every distinct triple the
\* endpoint returned has had exactly one add_edge call.
C2_OncePerTriple ==
    (Fetching /\ PagesProcessed) =>
        \A t \in DOMAIN returned : BagCount(added, t) = 1

\* C2 as amended: add_edge is called exactly once per returned row, so a
\* triple has as many add_edge calls as rows of processed pages carry it.
C2_OncePerRow ==
    Fetching =>
        /\ \A t \in DOMAIN added : added[t] <= BagCount(returned, t)
        /\ PagesProcessed => added = returned

\* one page held the same triple in two rows that differ in the edge
\* property only, and the triple has had two add_edge calls
C2_Witness ==
    /\ Fetching /\ pc = "for_page"
    /\ results = <<EdgeRow(N1, N2, K1), EdgeRow(N1, N2, K2)>>
    /\ Len(offsets) = 1
    /\ BagCount(added, <<N1, REL, N2>>) = 2

\* C3 as claimed: with a 'limit' argument the rows asked for by the
\* edge-page queries of the fetch never exceed the limit.
C3_RequestedWithinLimit ==
    (Fetching /\ "limit" \in DOMAIN kwargs) => requested <= kwargs["limit"]

\* the node queries of the load_nodes call that listed the identifier id
ListingOf(id) ==
    {kj \in UNION {{<<k, j>> : j \in DOMAIN ValuesOf(values[k])} : k \in DOMAIN values} :
        ValuesOf(values[kj[1]])[kj[2]] = id}

\* C4: no node query lists the fill value; a load_nodes call sends at most
\* ceil(n / ChunkSize) node queries for its n identifiers and, once it has
\* returned, has sent exactly that many, every identifier listed exactly once.
C4_ChunkQueries ==
    /\ \A k \in DOMAIN values : None \notin Range(Split(values[k], " "))
    /\ Len(values) <= Ceil(Cardinality(node_set), ChunkSize)
    /\ pc \notin {"load_nodes", "aborted"} =>
        /\ Len(values) = Ceil(Cardinality(node_set), ChunkSize)
        /\ \A id \in node_set : Cardinality(ListingOf(id)) = 1

\* load_nodes has returned after three queries for 2 * ChunkSize + 1 identifiers
C4_Witness ==
    /\ method = "load_nodes" /\ pc = "idle"
    /\ Cardinality(node_set) = 2 * ChunkSize + 1
    /\ Len(values) = 3

\* C5 as claimed: during the paging of one predicate no identifier is listed
\* in a node query more than once.
C5_SubmittedOncePerPredicate ==
    Fetching => \A id \in DOMAIN submitted : submitted[id] <= 1

\* C5 as amended: identifiers are deduplicated within a page only; an
\* identifier is listed in a node query exactly once for every page of the
\* predicate whose rows hold it.
C5_SubmittedOncePerPage ==
    Fetching =>
        /\ \A id \in DOMAIN submitted : submitted[id] <= BagCount(occurs, id)
        /\ pc \in {"add_edges", "for_page", "for_predicate", "idle"} => submitted = occurs

\* an identifier met on two pages of a predicate, in two rows of one of
\* them, has been listed twice
C5_Witness ==
    /\ Fetching /\ pc = "add_edges"
    /\ Len(offsets) = 2
    /\ Len(results) = 2 /\ results[1].subject = N1 /\ results[2].subject = N1
    /\ BagCount(submitted, Bracket(N1)) = 2

\* C6: the add_node_attribute calls made for a chunk come from rows of the
\* chunk's reply whose object is no bnode, and a subject with bnode rows only
\* gets none.
C6_NoBnodeAttributes ==
    method \in {"load_nodes", "load_networkx_graph"} =>
        /\ \A k \in DOMAIN last_calls :
            last_calls[k].op = "add_node_attribute" =>
                \E j \in DOMAIN node_results :
                    /\ node_results[j].object.type # "bnode"
                    /\ node_results[j].subject = last_calls[k].node
                    /\ AttributeKey(node_results[j].predicate) = last_calls[k].key
                    /\ node_results[j].object.value = last_calls[k].value
        /\ \A j \in DOMAIN node_results :
            (\A h \in DOMAIN node_results :
                node_results[h].subject = node_results[j].subject
                    => node_results[h].object.type = "bnode")
            => \A k \in DOMAIN last_calls :
                last_calls[k].op = "add_node_attribute"
                    => last_calls[k].node # node_results[j].subject

\* a chunk's reply held a bnode row of one subject and a literal row of
\* another, and one call was made
C6_Witness ==
    /\ method = "load_nodes" /\ pc = "load_nodes"
    /\ Len(node_results) = 2
    /\ node_results[1].object.type = "bnode" /\ node_results[1].subject = N1
    /\ node_results[2].object.type = "literal" /\ node_results[2].subject = N2
    /\ node_results[2].predicate = BL_TYPE
    /\ last_calls = <<[op |-> "add_node_attribute", node |-> N2, key |-> TYPE, value |-> X]>>

\* the graph after the k-th categorize pass
AfterPass(k) == IF k < Len(hist) THEN hist[k + 1] ELSE graph

\* C7: a categorize pass gives a category derived from its type to every
\* node that has a type and no category, changes no node that has a category
\* and nothing else; a second pass changes nothing at all.
C7_CategorizeIdempotent ==
    \A k \in DOMAIN hist :
        LET before == hist[k]
            after == AfterPass(k)
        IN  /\ DOMAIN after.nodes = DOMAIN before.nodes
            /\ after.edges = before.edges
            /\ \A n \in DOMAIN before.nodes :
                LET b == before.nodes[n]
                    a == after.nodes[n]
                IN  IF CATEGORY \notin DOMAIN b /\ TYPE \in DOMAIN b
                    THEN /\ DOMAIN a = DOMAIN b \cup {CATEGORY}
                         /\ a[CATEGORY] = un_camel_case(Replace(b[TYPE], BIOLINK, <<>>))
                         /\ \A key \in DOMAIN b : a[key] = b[key]
                    ELSE a = b
            /\ k >= 2 => after = before

\* two passes over a graph in which n1 had a category and a type and n2 a
\* type only; n2 is now a "gene product"
C7_Witness ==
    /\ method = "categorize" /\ Len(hist) = 2
    /\ DOMAIN hist[1].nodes = {N1, N2}
    /\ DOMAIN hist[1].nodes[N1] = {CATEGORY, TYPE}
    /\ DOMAIN hist[1].nodes[N2] = {TYPE, NAME}
    /\ hist[1].nodes[N2][TYPE] = GENE_PRODUCT
    /\ graph.nodes[N1][CATEGORY] = FOO
    /\ graph.nodes[N2][CATEGORY] = <<"g", "e", "n", "e", " ", "p", "r", "o", "d", "u", "c", "t">>

\* C8: the step in which a query fails makes no graph call and ends the
\* fetch, and after it no query is sent, no graph call is made and
\* categorize is not run.
C8_AbortOnError ==
    [][/\ failed.kind # "none" => UNCHANGED <<seen, failed, pc>>
       /\ (failed.kind = "none" /\ failed'.kind # "none") =>
            (pc' = "aborted" /\ UNCHANGED seen)]_vars

\* a node query failed after edges of an earlier page were added and with a
\* predicate still to visit
C8_Witness ==
    /\ Fetching /\ pc = "aborted"
    /\ failed.kind = "node"
    /\ DOMAIN added # {}
    /\ todo # {}
    /\ hist = <<>>

\* C9: in the generic path every returned row causes exactly one graph call:
\* add_node_attribute(subject, key=predicate, value=object) for a literal
\* object, add_edge(subject, object, predicate) otherwise; a fetch that
\* returned one literal row ends with that one node, its attribute and no edge.
C9_LiteralsBecomeAttributes ==
    method = "generic" =>
        /\ Len(last_calls) = Len(results)
        /\ \A k \in DOMAIN results :
            LET r == results[k]
            IN  IF r.object.type = "literal"
                THEN last_calls[k] = [op |-> "add_node_attribute", node |-> r.subject,
                                      key |-> r.predicate, value |-> r.object.value]
                ELSE last_calls[k] = [op |-> "add_edge", s |-> r.subject,
                                      o |-> r.object.value, p |-> r.predicate]
        /\ (/\ pc = "idle" /\ Cardinality(predicates) = 1
            /\ Len(results) = 1 /\ results[1].object.type = "literal") =>
                graph = [nodes |-> (results[1].subject :>
                                        (results[1].predicate :> results[1].object.value)),
                         edges |-> {}]

\* the fetch returned the single row (n1, p1, "42") and has ended
C9_Witness ==
    /\ method = "generic" /\ pc = "idle"
    /\ predicates = {P1}
    /\ results = <<[subject |-> N1, predicate |-> P1, object |-> Literal(FORTY_TWO)]>>
    /\ graph.nodes[N1][P1] = FORTY_TWO
    /\ graph.edges = {}

====
